---- MODULE Spec2Model ----
(***************************************************************************)
(* Model of src/NeuralNetwork/next_round_value.py: the NextRoundValue      *)
(* engine (constructor, init_computation, evaluate_ranges,                 *)
(* get_stored_cfvs_of_all_next_round_boards) and the module-level registry *)
(* NEXT_ROUND_VALUES with get_next_round_value.                            *)
(*                                                                         *)
(* Tensors are functions over index sets: states 1..batch_size, boards     *)
(* 1..BC, players 0..PC-1, hands 1..HC.  Floating point quotients are kept *)
(* exact as records [n |-> numerator, d |-> denominator].                  *)
(***************************************************************************)
EXTENDS Integers, Sequences, FiniteSets, TLC

----------------------------------------------------------------------------
(* Bounds of the model *)

\* cards in the deck (52 in the game); a hand is one card
DeckSize == 3
\* evaluate_ranges calls made within one init_computation
MaxIter == 3
\* largest leaf_nodes_iterations handed to the constructor
MaxLeafIters == 2
\* get_stored_cfvs_of_all_next_round_boards calls within one init_computation
MaxRetrieves == 1
\* magnitude of the large value the network may write
NNBig == 3

(* Program constants *)

\* constants.players_count
PC == 2
\* arguments.stack (pot sizes below divide it, so stack / pot is an integer)
Stack == 2
\* arguments.cfr_skip_iters
cfr_skip_iters == 1

Players == 0 .. (PC - 1)
\* constants.hand_count: one hand per card of the deck
HC == DeckSize
Hands == 1 .. HC
Cards == 1 .. DeckSize
Streets == 1 .. 3

None == "None"

----------------------------------------------------------------------------
(* Collaborators from Game.card_tools / Game.card_combinations *)

\* constants.board_card_count: community cards on the board at a street
BoardCardCount(s) == s - 1

\* card_tools.get_possible_hands_mask: hands sharing no card with the board
get_possible_hands_mask(board) == [h \in Hands |-> h \notin board]

\* card_tools.get_next_round_boards: the board with one more card, in card order
get_next_round_boards(board) ==
    LET rem == Cards \ board
        nth(i) == CHOOSE c \in rem : Cardinality({d \in rem : d < c}) = i - 1
    IN  [i \in 1 .. Cardinality(rem) |-> board \cup {nth(i)}]

\* card_combinations.count_next_boards_possible_boards: boards of the next street
count_next_boards_possible_boards(s) == DeckSize - BoardCardCount(s)

\* the board the caller hands to an engine of street s: the lowest cards
\* (hands and cards are interchangeable, so one board per street is enough)
BoardsOf(s) == {1 .. BoardCardCount(s)}

----------------------------------------------------------------------------
(* Arithmetic helpers *)

RECURSIVE SumOver(_, _)
SumOver(f, S) ==
    IF S = {} THEN 0
    ELSE LET x == CHOOSE y \in S : TRUE IN f[x] + SumOver(f, S \ {x})

Abs(x) == IF x < 0 THEN -x ELSE x
Max(a, b) == IF a > b THEN a ELSE b

----------------------------------------------------------------------------
(* State *)

VARIABLES
    weights,            \* pretrained weight files present: <<street, approximate>>
    self,               \* the NextRoundValue object under use (None before __init__)
    leaf_nodes_iterations, \* the budget handed to the constructor of self
    NEXT_ROUND_VALUES,  \* the module-level registry: street -> engine
    street_loop,        \* position of the module-level for loop (4 = loop done)
    lookup,             \* outcome of the last get_next_round_value call
    lastOp,             \* the last call made and how it ended
    lastMode,           \* branch taken by the last evaluate_ranges call
    ranges_arg,         \* the ranges handed to the last evaluate_ranges call
    stale,              \* the last call was an init_computation on stored values
    init_args,          \* <<len(pot_sizes), batch_size>> of the last init_computation
    values_norm,        \* local values_norm of the last evaluate_ranges call
    current_board_values, \* value returned by the last evaluate_ranges call
    retrieves           \* get_stored_cfvs_of_all_next_round_boards calls since init_computation

vars == <<weights, self, leaf_nodes_iterations, NEXT_ROUND_VALUES, street_loop,
          lookup, lastOp, lastMode, ranges_arg, stale, init_args, values_norm,
          current_board_values, retrieves>>

engineVars == <<self, leaf_nodes_iterations, lastMode, ranges_arg, stale, init_args,
                values_norm, current_board_values, retrieves>>
registryVars == <<NEXT_ROUND_VALUES, street_loop, lookup>>

\* ValueNn(street, approximate, pretrained_weights=True) raises without weights
WeightKeys == {<<s, "root_nodes">> : s \in 2 .. 4} \cup {<<s, "leaf_nodes">> : s \in Streets}

----------------------------------------------------------------------------
(* NextRoundValue.__init__ *)

\* faulty variant of NextRoundValue_init: the requested budget survives a
\* missing leaf model
NextRoundValue_init_keep_budget(street, leaf_iters, w) ==
    IF <<street + 1, "root_nodes">> \notin w
    THEN [raised |-> TRUE]
    ELSE [raised |-> FALSE, life |-> "constructed", street |-> street,
          next_street_nn |-> "root_nodes",
          leaf_nodes_nn |-> IF <<street, "leaf_nodes">> \in w THEN "leaf_nodes" ELSE None,
          num_leaf_nodes_approximation_iters |-> leaf_iters]

\* faulty variant of NextRoundValue_init: a missing root model is recovered
\* from like a missing leaf model
NextRoundValue_init_partial(street, leaf_iters, w) ==
    [raised |-> FALSE, life |-> "constructed", street |-> street,
     next_street_nn |-> IF <<street + 1, "root_nodes">> \in w THEN "root_nodes" ELSE None,
     leaf_nodes_nn |-> IF <<street, "leaf_nodes">> \in w THEN "leaf_nodes" ELSE None,
     num_leaf_nodes_approximation_iters |->
         IF <<street, "leaf_nodes">> \in w THEN leaf_iters ELSE 0]

\* the attributes set by the constructor; raised = the constructor threw
\* (line 24 is outside the try, lines 25-30 recover from a missing leaf model)
NextRoundValue_init(street, leaf_iters, w) ==
    IF <<street + 1, "root_nodes">> \notin w
    THEN [raised |-> TRUE]
    ELSE IF <<street, "leaf_nodes">> \in w
         THEN [raised |-> FALSE, life |-> "constructed", street |-> street,
               next_street_nn |-> "root_nodes", leaf_nodes_nn |-> "leaf_nodes",
               num_leaf_nodes_approximation_iters |-> leaf_iters]
         ELSE [raised |-> FALSE, life |-> "constructed", street |-> street,
               next_street_nn |-> "root_nodes", leaf_nodes_nn |-> None,
               num_leaf_nodes_approximation_iters |-> 0]

\* no object yet
NoObject == [life |-> "none"]

\* attributes that exist only after init_computation
Unset ==
    [iter |-> None, current_board |-> None, next_boards |-> None,
     next_boards_count |-> None, pot_sizes |-> None, batch_size |-> None,
     next_round_inputs |-> None, next_round_values |-> None,
     next_boards_mask |-> None, root_nodes_sum_normalization |-> None,
     cumulative_norm |-> None, cumulative_cfvs |-> None,
     current_round_inputs |-> None, current_round_values |-> None,
     current_board_mask |-> None, leaf_nodes_sum_normalization |-> None]

Merge(r, t) == [k \in DOMAIN r \cup DOMAIN t |-> IF k \in DOMAIN t THEN t[k] ELSE r[k]]

----------------------------------------------------------------------------
(* Tensors *)

Zero == [n |-> 0, d |-> 1]

\* np.zeros([b, BC, PC, HC])
Zeros4(b, BCn, z) == [s \in 1 .. b |-> [bd \in 1 .. BCn |-> [p \in Players |-> [h \in Hands |-> z]]]]
\* np.zeros([b, BC, PC])
Zeros3(b, BCn) == [s \in 1 .. b |-> [bd \in 1 .. BCn |-> [p \in Players |-> 0]]]

----------------------------------------------------------------------------
(* NextRoundValue.init_computation, with _init_root_approximation_vars and *)
(* _init_leaf_approximation_vars                                           *)

\* faulty variant of RepeatPots: the pot sizes are not repeated
RepeatPots_once(pots, bs) == pots

\* lines 93-94: np.repeat(pot_sizes.reshape([-1,1]), batch_size, axis=1).reshape([-1,1])
RepeatPots(pots, bs) == [s \in 1 .. (Len(pots) * bs) |-> pots[((s - 1) \div bs) + 1]]

\* lines 33-59
init_root_approximation_vars(obj) ==
    LET BCn == obj.next_boards_count
        b   == obj.batch_size
    IN  [next_round_inputs |-> Zeros4(b, BCn, Zero),
         next_round_values |-> Zeros4(b, BCn, 0),
         next_boards_mask |-> [i \in 1 .. BCn |-> get_possible_hands_mask(obj.next_boards[i])],
         root_nodes_sum_normalization |->
             [n |-> 1, d |-> count_next_boards_possible_boards(obj.street)],
         cumulative_norm |-> Zeros3(b, BCn),
         cumulative_cfvs |-> Zeros4(b, BCn, Zero)]

\* lines 62-78
init_leaf_approximation_vars(obj) ==
    LET b    == obj.batch_size
        mask == get_possible_hands_mask(obj.current_board)
    IN  [current_round_inputs |-> Zeros4(b, 1, Zero),
         current_round_values |-> Zeros4(b, 1, 0),
         current_board_mask |-> [i \in 1 .. 1 |-> mask],
         leaf_nodes_sum_normalization |->
             [n |-> 1, d |-> Cardinality({h \in Hands : mask[h]})]]

\* faulty variant of init_computation: the iteration counter of a used
\* object is kept
init_computation_keep_iter(obj, board, pots, bs) ==
    LET nb == get_next_round_boards(board)
        ps == RepeatPots(pots, bs)
        o1 == Merge(obj, [life |-> "ready",
                          iter |-> IF obj.life = "ready" THEN obj.iter ELSE 0,
                          current_board |-> board,
                          next_boards |-> nb, next_boards_count |-> Len(nb),
                          pot_sizes |-> ps, batch_size |-> Len(ps)])
        o2 == Merge(o1, init_root_approximation_vars(o1))
    IN  Merge(o2, init_leaf_approximation_vars(o2))

\* lines 81-101
init_computation(obj, board, pots, bs) ==
    LET nb == get_next_round_boards(board)
        ps == RepeatPots(pots, bs)
        o1 == Merge(obj, [life |-> "ready", iter |-> 0, current_board |-> board,
                          next_boards |-> nb, next_boards_count |-> Len(nb),
                          pot_sizes |-> ps, batch_size |-> Len(ps)])
        o2 == Merge(o1, init_root_approximation_vars(o1))
    IN  Merge(o2, init_leaf_approximation_vars(o2))

----------------------------------------------------------------------------
(* NextRoundValue.evaluate_ranges *)

\* faulty variant of UseRootNodes: switches one iteration early
UseRootNodes_early(iter, budget) == iter >= budget

\* line 115: root branch (next street boards) or leaf branch (current board)
UseRootNodes(iter, budget) == iter > budget

\* faulty variant of MaskRanges: the ranges are copied but not masked
MaskRanges_unmasked(ranges, mask, b, BCn) ==
    [s \in 1 .. b |-> [bd \in 1 .. BCn |-> [p \in Players |-> [h \in Hands |->
        ranges[s][p][h]]]]]

\* lines 130-133: ranges copied for every board, times the board's hand mask
MaskRanges(ranges, mask, b, BCn) ==
    [s \in 1 .. b |-> [bd \in 1 .. BCn |-> [p \in Players |-> [h \in Hands |->
        ranges[s][p][h] * (IF mask[bd][h] THEN 1 ELSE 0)]]]]

\* line 135: np.sum(ranges, axis=3)
RangesSum(masked, b, BCn) ==
    [s \in 1 .. b |-> [bd \in 1 .. BCn |-> [p \in Players |->
        SumOver(masked[s][bd][p], Hands)]]]

\* faulty variant of SwapPlayers: each player keeps its own sum
SwapPlayers_own(rs, b, BCn) == rs

\* lines 137-139: the sums with the two players swapped
SwapPlayers(rs, b, BCn) ==
    [s \in 1 .. b |-> [bd \in 1 .. BCn |-> [p \in Players |-> rs[s][bd][1 - p]]]]

\* faulty variant of GuardZero: a zero sum stays zero
GuardZero_unguarded(x) == x

\* line 141: ranges_sum[ ranges_sum == 0 ] = 1
GuardZero(x) == IF x = 0 THEN 1 ELSE x

\* line 142: ranges /= ranges_sum, each entry kept as an exact quotient
NormalizeRanges(masked, rs, b, BCn) ==
    [s \in 1 .. b |-> [bd \in 1 .. BCn |-> [p \in Players |-> [h \in Hands |->
        [n |-> masked[s][bd][p][h], d |-> GuardZero(rs[s][bd][p])]]]]]

\* line 149: nn_outputs *= values_norm
Rescale(out, vn, b, BCn) ==
    [s \in 1 .. b |-> [bd \in 1 .. BCn |-> [p \in Players |-> [h \in Hands |->
        out[s][bd][p][h] * vn[s][bd][p]]]]]

\* faulty variant of Clip: the value is passed through unclipped
Clip_unclipped(x, m) == x

\* line 154: np.clip(x, -m, m)
Clip(x, m) == IF x > m THEN m ELSE IF x < -m THEN -m ELSE x

\* line 153: max_values = arguments.stack / pot_sizes
MaxValue(pot) == Stack \div pot

\* lines 153-154 over the whole tensor
ClipOutputs(out, pots, b, BCn) ==
    [s \in 1 .. b |-> [bd \in 1 .. BCn |-> [p \in Players |-> [h \in Hands |->
        Clip(out[s][bd][p][h], MaxValue(pots[s]))]]]]

\* line 156: np.sum(nn_outputs, axis=1) * sum_normalization
ReduceBoards(out, norm, b, BCn) ==
    [s \in 1 .. b |-> [p \in Players |-> [h \in Hands |->
        [n |-> SumOver([bd \in 1 .. BCn |-> out[s][bd][p][h]], 1 .. BCn) * norm.n,
         d |-> norm.d]]]]

\* faulty variant of AccumulateGate: the skipped first iterations are stored too
AccumulateGate_no_skip(iter, budget) == iter > budget

\* line 159: the iterations whose values are stored
AccumulateGate(iter, budget) == iter > cfr_skip_iters /\ iter > budget

\* line 161: cumulative_cfvs += nn_outputs
AddCfvs(cum, out, b, BCn) ==
    [s \in 1 .. b |-> [bd \in 1 .. BCn |-> [p \in Players |-> [h \in Hands |->
        [n |-> cum[s][bd][p][h].n + out[s][bd][p][h] * cum[s][bd][p][h].d,
         d |-> cum[s][bd][p][h].d]]]]]

\* line 162: cumulative_norm += values_norm
AddNorm(cn, vn, b, BCn) ==
    [s \in 1 .. b |-> [bd \in 1 .. BCn |-> [p \in Players |-> cn[s][bd][p] + vn[s][bd][p]]]]

\* line 147: what neural_network.predict writes into its out argument.  The
\* network is not part of this file: it writes net.v for player 0 and -net.v
\* for player 1, and zero on hands the board excludes when net.premasked.
Predict(net, mask, b, BCn) ==
    [s \in 1 .. b |-> [bd \in 1 .. BCn |-> [p \in Players |-> [h \in Hands |->
        IF net.premasked /\ ~mask[bd][h] THEN 0
        ELSE IF p = 0 THEN net.v ELSE -net.v]]]]

\* line 112: assert(ranges.shape[0] == self.batch_size)
AssertBatch(rb, obj) == rb = obj.batch_size

\* lines 111-163 past the assert.  Yields the object, the returned value and
\* the locals the properties below speak of.
evaluate_ranges(obj, ranges, net) ==
    LET b      == obj.batch_size
        it     == obj.iter + 1
        root   == UseRootNodes(it, obj.num_leaf_nodes_approximation_iters)
        BCn    == IF root THEN obj.next_boards_count ELSE 1
        nn     == IF root THEN obj.next_street_nn ELSE obj.leaf_nodes_nn
        mask   == IF root THEN obj.next_boards_mask ELSE obj.current_board_mask
        norm   == IF root THEN obj.root_nodes_sum_normalization
                          ELSE obj.leaf_nodes_sum_normalization
        masked == MaskRanges(ranges, mask, b, BCn)
        rs     == RangesSum(masked, b, BCn)
        vn     == SwapPlayers(rs, b, BCn)
        inp    == NormalizeRanges(masked, rs, b, BCn)
        o1     == IF root THEN [obj EXCEPT !.iter = it, !.next_round_inputs = inp]
                          ELSE [obj EXCEPT !.iter = it, !.current_round_inputs = inp]
        buf    == Rescale(Predict(net, mask, b, BCn), vn, b, BCn)
        o2     == IF root THEN [o1 EXCEPT !.next_round_values = buf]
                          ELSE [o1 EXCEPT !.current_round_values = buf]
        outs   == ClipOutputs(buf, obj.pot_sizes, b, BCn)
        gate   == AccumulateGate(it, obj.num_leaf_nodes_approximation_iters)
        o3     == IF gate
                  THEN [o2 EXCEPT !.cumulative_cfvs = AddCfvs(@, outs, b, BCn),
                                  !.cumulative_norm = AddNorm(@, vn, b, BCn)]
                  ELSE o2
    IN  IF nn = None
        THEN [raised |-> TRUE, obj |-> o1, root |-> root, values_norm |-> vn,
              ret |-> None]
        ELSE [raised |-> FALSE, obj |-> o3, root |-> root, values_norm |-> vn,
              ret |-> ReduceBoards(outs, norm, b, BCn)]

----------------------------------------------------------------------------
(* NextRoundValue.get_stored_cfvs_of_all_next_round_boards *)

\* lines 169-172: both tensors are changed in place
get_stored_cfvs_of_all_next_round_boards(obj) ==
    LET b   == obj.batch_size
        BCn == obj.next_boards_count
        cn  == [s \in 1 .. b |-> [bd \in 1 .. BCn |-> [p \in Players |->
                   GuardZero(obj.cumulative_norm[s][bd][p])]]]
    IN  [obj EXCEPT !.cumulative_norm = cn,
                    !.cumulative_cfvs =
                        [s \in 1 .. b |-> [bd \in 1 .. BCn |-> [p \in Players |-> [h \in Hands |->
                            [n |-> @[s][bd][p][h].n, d |-> @[s][bd][p][h].d * cn[s][bd][p]]]]]]]

----------------------------------------------------------------------------
(* Inputs *)

\* leaf_nodes_iterations handed to the constructor
LeafIterChoices == {0, MaxLeafIters}

\* <<pot_sizes, batch_size>> handed to init_computation; every pot divides Stack
SetupArgs == {<< <<1, 2>>, 1 >>, << <<2>>, 2 >>}

\* ranges.shape[0] handed to evaluate_ranges
RangesBatchChoices == 1 .. 3

\* a range: no mass, mass one on every hand, or mass two on hand h0 alone
RangeOf(kind, h0) ==
    [h \in Hands |-> IF kind = "uniform" THEN 1
                     ELSE IF kind = "point" /\ h = h0 THEN 2 ELSE 0]

\* range profiles <<kind of one player, kind of the other, h0>>
RangeInputs ==
    {<<"uniform", "uniform", 1>>, <<"uniform", "zero", 1>>}
        \cup {<<"point", "uniform", h>> : h \in {1, HC}}

\* the [b, P, I] ranges of a profile; the players' kinds alternate over states
RangesOf(prof, b) ==
    [s \in 1 .. b |-> [p \in Players |-> RangeOf(prof[((p + s - 1) % 2) + 1], prof[3])]]

\* what the network may write: small values that respect the masks, or
\* large ones that do not (player 1 gets the opposite sign of player 0)
NetInputs == {[v |-> 1, premasked |-> TRUE], [v |-> -NNBig, premasked |-> FALSE]}

\* weight files on disk when a single engine is exercised
EngineWeightSets ==
    {WeightKeys, {k \in WeightKeys : k[2] = "root_nodes"}, {k \in WeightKeys : k[2] = "leaf_nodes"}}

----------------------------------------------------------------------------
(* One engine: its constructor and its three methods *)

\* some stored value or stored norm of the object is not zero
AnyStored(obj) ==
    \E s \in 1 .. obj.batch_size, bd \in 1 .. obj.next_boards_count, p \in Players :
        \/ obj.cumulative_norm[s][bd][p] # 0
        \/ \E h \in Hands : obj.cumulative_cfvs[s][bd][p][h].n # 0

\* an exception out of evaluate_ranges ends the subgame: the caller does not
\* recover from it, and the engine is next used by a new init_computation
Running == self.life = "ready" /\ lastOp \notin {"evaluate_assert", "evaluate_raised"}

Init ==
    /\ weights \in EngineWeightSets
    /\ self = NoObject
    /\ leaf_nodes_iterations = 0
    /\ NEXT_ROUND_VALUES = << >>
    /\ street_loop = 1
    /\ lookup = [found |-> FALSE, error |-> "none"]
    /\ lastOp = "none"
    /\ lastMode = "none"
    /\ ranges_arg = << >>
    /\ stale = FALSE
    /\ init_args = <<0, 0>>
    /\ values_norm = None
    /\ current_board_values = None
    /\ retrieves = 0

\* NextRoundValue(street, skip_iterations, leaf_nodes_iterations)
Construct ==
    /\ self.life = "none"
    /\ lastOp = "none"
    /\ \E street \in Streets, li \in LeafIterChoices :
         LET r == NextRoundValue_init(street, li, weights)
         IN  /\ leaf_nodes_iterations' = li
             /\ IF r.raised
                THEN /\ self' = self
                     /\ lastOp' = "init_raised"
                ELSE /\ self' = Merge(Unset, [k \in DOMAIN r \ {"raised"} |-> r[k]])
                     /\ lastOp' = "init"
    /\ UNCHANGED <<weights, registryVars, lastMode, ranges_arg, stale, init_args,
                   values_norm, current_board_values, retrieves>>

\* self.init_computation(board, pot_sizes, batch_size)
InitComputation ==
    /\ self.life \in {"constructed", "ready"}
    /\ \E board \in BoardsOf(self.street), a \in SetupArgs :
         /\ self' = init_computation(self, board, a[1], a[2])
         /\ init_args' = <<Len(a[1]), a[2]>>
    /\ lastOp' = "init_computation"
    /\ retrieves' = 0
    \* nothing of the previous subgame's calls is kept
    /\ lastMode' = "none"
    /\ ranges_arg' = << >>
    /\ stale' = (self.life = "ready" /\ AnyStored(self))
    /\ values_norm' = None
    /\ current_board_values' = None
    /\ UNCHANGED <<weights, registryVars, leaf_nodes_iterations>>

\* self.evaluate_ranges(ranges) with ranges.shape[0] == self.batch_size
EvaluateRanges ==
    /\ Running
    /\ self.iter < MaxIter
    \* the stored values are read after the last iteration of a subgame
    /\ retrieves = 0
    /\ \E rb \in RangesBatchChoices, prof \in RangeInputs, net \in NetInputs :
         /\ AssertBatch(rb, self)
         /\ LET r == evaluate_ranges(self, RangesOf(prof, rb), net)
            IN  /\ self' = r.obj
                /\ lastOp' = IF r.raised THEN "evaluate_raised" ELSE "evaluate"
                /\ lastMode' = IF r.root THEN "root" ELSE "leaf"
                /\ values_norm' = r.values_norm
                /\ current_board_values' = r.ret
         /\ ranges_arg' = RangesOf(prof, rb)
    /\ stale' = FALSE
    /\ UNCHANGED <<weights, registryVars, leaf_nodes_iterations, init_args, retrieves>>

\* self.evaluate_ranges(ranges) stopped by the assert of line 112
EvaluateRangesAssert ==
    /\ Running
    /\ \E rb \in RangesBatchChoices :
         /\ ~AssertBatch(rb, self)
         /\ ranges_arg' = RangesOf(<<"uniform", "uniform", 1>>, rb)
    /\ lastOp' = "evaluate_assert"
    /\ stale' = FALSE
    /\ UNCHANGED <<weights, registryVars, self, leaf_nodes_iterations, lastMode,
                   init_args, values_norm, current_board_values, retrieves>>

\* self.get_stored_cfvs_of_all_next_round_boards()
GetStoredCfvs ==
    /\ Running
    /\ retrieves < MaxRetrieves
    /\ self' = get_stored_cfvs_of_all_next_round_boards(self)
    /\ retrieves' = retrieves + 1
    /\ lastOp' = "get_stored"
    /\ stale' = FALSE
    /\ UNCHANGED <<weights, registryVars, leaf_nodes_iterations, lastMode,
                   ranges_arg, init_args, values_norm, current_board_values>>

Next ==
    \/ Construct
    \/ InitComputation
    \/ EvaluateRanges
    \/ EvaluateRangesAssert
    \/ GetStoredCfvs

Spec == Init /\ [][Next]_vars

----------------------------------------------------------------------------
(* The registry built when the module is loaded, lines 178-188 *)

InitRegistry ==
    /\ weights \in SUBSET WeightKeys
    /\ self = NoObject
    /\ leaf_nodes_iterations = 0
    /\ NEXT_ROUND_VALUES = << >>
    /\ street_loop = 1
    /\ lookup = [found |-> FALSE, error |-> "none"]
    /\ lastOp = "none"
    /\ lastMode = "none"
    /\ ranges_arg = << >>
    /\ stale = FALSE
    /\ init_args = <<0, 0>>
    /\ values_norm = None
    /\ current_board_values = None
    /\ retrieves = 0

\* lines 181-185: the entry the loop body leaves for a street; the except
\* clause drops whatever the constructor threw
TryConstruct(reg, street, leaf_iters, w) ==
    LET r == NextRoundValue_init(street, leaf_iters, w)
    IN  IF r.raised THEN reg
        ELSE Merge(reg, [k \in {street} |-> [f \in DOMAIN r \ {"raised"} |-> r[f]]])

\* one pass of "for street in range(1,4)", lines 179-185
ModuleLoop ==
    /\ street_loop \in Streets
    /\ \E li \in LeafIterChoices :
         NEXT_ROUND_VALUES' = TryConstruct(NEXT_ROUND_VALUES, street_loop, li, weights)
    /\ street_loop' = street_loop + 1
    /\ lastOp' = "module_loop"
    /\ UNCHANGED <<weights, engineVars, lookup>>

\* line 188: NEXT_ROUND_VALUES[street]
get_next_round_value(reg, street) ==
    IF street \in DOMAIN reg
    THEN [found |-> TRUE, street |-> street, engine |-> reg[street]]
    ELSE [found |-> FALSE, street |-> street, error |-> "KeyError"]

\* get_next_round_value(street), called once the module is loaded
GetNextRoundValue ==
    /\ street_loop = 4
    /\ \E street \in Streets : lookup' = get_next_round_value(NEXT_ROUND_VALUES, street)
    /\ lastOp' = "get_next_round_value"
    /\ UNCHANGED <<weights, engineVars, NEXT_ROUND_VALUES, street_loop>>

NextRegistry ==
    \/ ModuleLoop
    \/ GetNextRoundValue

SpecRegistry == InitRegistry /\ [][NextRegistry]_vars

----------------------------------------------------------------------------
(* Properties *)

Budget == self.num_leaf_nodes_approximation_iters
States == 1 .. self.batch_size

\* the buffers, masks and board count of the branch the last call took
ActiveBoards == IF lastMode = "root" THEN 1 .. self.next_boards_count ELSE 1 .. 1
ActiveInputs == IF lastMode = "root" THEN self.next_round_inputs ELSE self.current_round_inputs
ActiveValues == IF lastMode = "root" THEN self.next_round_values ELSE self.current_round_values
ActiveMask == IF lastMode = "root" THEN self.next_boards_mask ELSE self.current_board_mask

\* mass the caller's range leaves on the hands a board allows
LegalMass(s, bd, p) ==
    SumOver([h \in Hands |-> IF ActiveMask[bd][h] THEN ranges_arg[s][p][h] ELSE 0], Hands)

\* a step of evaluate_ranges that got past the assert and the network call
EvaluateStep ==
    /\ self.life = "ready"
    /\ self'.life = "ready"
    /\ self'.iter = self.iter + 1
    /\ lastOp' = "evaluate"

C2_ModeOfCall ==
    lastOp = "evaluate" =>
        /\ (lastMode = "leaf") = (self.iter <= Budget)
        /\ (lastMode = "root") = (self.iter > Budget)
        /\ \A s \in States :
               DOMAIN values_norm[s] =
                   IF self.iter <= Budget THEN 1 .. 1 ELSE 1 .. self.next_boards_count

\* C2: the branch of the k-th call depends on k and the budget alone, and once
\* a call took the root branch every later call of that subgame takes it.
C2_ModeMonotonic ==
    /\ []C2_ModeOfCall
    /\ [][(lastMode = "root" /\ lastOp' # "init_computation") => lastMode' = "root"]_vars

\* C2 witness: a root-branch call that follows leaf-branch calls.
C2_Witness ==
    /\ lastOp = "evaluate"
    /\ lastMode = "root"
    /\ Budget > 0
    /\ self.iter = Budget + 1

\* C3: an evaluate_ranges call whose counter, after the increment, is at most
\* max(skip threshold, budget) leaves both stored tensors unchanged.
C3_GateFrame ==
    [][(EvaluateStep /\ self'.iter <= Max(cfr_skip_iters, Budget)) =>
           /\ self'.cumulative_cfvs = self.cumulative_cfvs
           /\ self'.cumulative_norm = self.cumulative_norm]_vars

\* C3 witness: a root-branch call inside the skipped iterations, with mass to
\* store, after which nothing is stored.
C3_Witness ==
    /\ lastOp = "evaluate"
    /\ lastMode = "root"
    /\ self.iter <= cfr_skip_iters
    /\ \E s \in States, bd \in ActiveBoards, p \in Players : values_norm[s][bd][p] > 0
    /\ ~AnyStored(self)

\* C4: init_computation leaves the counter at 0 and both stored tensors all
\* zero, whatever the object held before; the calls that follow count from 1
\* and, until one of them stores, see nothing of the previous subgame.
C4_SetupResets ==
    /\ lastOp = "init_computation" => (self.iter = 0 /\ ~AnyStored(self))
    /\ lastOp = "evaluate" => self.iter \in 1 .. MaxIter
    /\ (lastOp = "evaluate" /\ self.iter <= Max(cfr_skip_iters, Budget))
           => ~AnyStored(self)

\* C4 witness: an init_computation on an object that held stored values.
C4_Witness ==
    /\ lastOp = "init_computation"
    /\ stale


\* C5 as stated: evaluate_ranges gets past its assert iff ranges.shape[0]
\* equals the batch_size argument of init_computation.
C5_Original ==
    lastOp \in {"evaluate", "evaluate_assert"} =>
        ((lastOp = "evaluate") = (Len(ranges_arg) = init_args[2]))

\* C5 amended: evaluate_ranges gets past its assert iff ranges.shape[0]
\* equals len(pot_sizes) * batch_size, the rows of the repeated pot sizes.
C5_AssertIffRepeatedBatch ==
    lastOp \in {"evaluate", "evaluate_assert"} =>
        ((lastOp = "evaluate") = (Len(ranges_arg) = init_args[1] * init_args[2]))

\* C5 witness: a call that passed with two pot sizes and batch_size 1.
C5_Witness ==
    /\ lastOp = "evaluate"
    /\ init_args = <<2, 1>>
    /\ Len(ranges_arg) = 2

\* C6: when the leaf model is missing the constructor still succeeds, the
\* budget is 0 whatever was requested, and no evaluate_ranges call takes the
\* leaf branch or reaches the absent model.
C6_RootOnlyWithoutLeafModel ==
    /\ lastOp = "init_raised" => \E s \in Streets : <<s + 1, "root_nodes">> \notin weights
    /\ (self.life # "none" /\ <<self.street, "leaf_nodes">> \notin weights) =>
           /\ Budget = 0
           /\ self.leaf_nodes_nn = None
           /\ lastMode # "leaf"
           /\ lastOp # "evaluate_raised"

\* C6 witness: an engine built without leaf model and with a positive
\* requested budget, whose first call took the root branch.
C6_Witness ==
    /\ self.life = "ready"
    /\ <<self.street, "leaf_nodes">> \notin weights
    /\ leaf_nodes_iterations > 0
    /\ lastOp = "evaluate"
    /\ lastMode = "root"
    /\ self.iter = 1

\* C7: loading the module always runs the loop to its end; a street whose
\* root model is missing has no entry, every street whose root model loads
\* has one complete entry, and looking up a street without entry fails.
C7_RegistryOmitsMissingRoot ==
    /\ \A s \in Streets :
           /\ s \in DOMAIN NEXT_ROUND_VALUES =>
                  /\ s < street_loop
                  /\ <<s + 1, "root_nodes">> \in weights
                  /\ NEXT_ROUND_VALUES[s].street = s
                  /\ NEXT_ROUND_VALUES[s].next_street_nn = "root_nodes"
           /\ (s < street_loop /\ <<s + 1, "root_nodes">> \in weights) =>
                  s \in DOMAIN NEXT_ROUND_VALUES
    /\ lastOp = "get_next_round_value" =>
           /\ street_loop = 4
           /\ lookup.found = (<<lookup.street + 1, "root_nodes">> \in weights)
           /\ lookup.found => lookup.engine = NEXT_ROUND_VALUES[lookup.street]
           /\ ~lookup.found => lookup.error = "KeyError"

\* C7 witness: a failed lookup of an omitted street in a registry that holds
\* another street.
C7_Witness ==
    /\ lastOp = "get_next_round_value"
    /\ ~lookup.found
    /\ <<lookup.street + 1, "root_nodes">> \notin weights
    /\ DOMAIN NEXT_ROUND_VALUES # {}

\* the value np.clip leaves of x for pot size pot, stated without Clip
IsClipped(e, x, pot) ==
    \/ Abs(x) * pot <= Stack /\ e = x
    \/ x * pot > Stack /\ e * pot = Stack
    \/ x * pot < -Stack /\ e * pot = -Stack

\* C8 as stated: a storing call adds the rescaled output before clipping to
\* the stored values, and the swapped sum to the stored norm.
C8_Original ==
    [][(EvaluateStep /\ self'.iter > Max(cfr_skip_iters, Budget)) =>
           \A s \in States, bd \in 1 .. self.next_boards_count, p \in Players :
               /\ self'.cumulative_norm[s][bd][p]
                      = self.cumulative_norm[s][bd][p] + values_norm'[s][bd][p]
               /\ \A h \in Hands :
                      self'.cumulative_cfvs[s][bd][p][h].n
                          = self.cumulative_cfvs[s][bd][p][h].n
                            + self'.next_round_values[s][bd][p][h]
                              * self.cumulative_cfvs[s][bd][p][h].d]_vars

\* C8 amended: a storing call adds the rescaled output after clipping to
\* +-stack/pot (still per board, before the reduction) to the stored values,
\* and the other player's masked range sum to the stored norm.
C8_AddsClippedOutput ==
    [][(EvaluateStep /\ self'.iter > Max(cfr_skip_iters, Budget)) =>
           \A s \in States, bd \in 1 .. self.next_boards_count, p \in Players :
               /\ self'.cumulative_norm[s][bd][p]
                      = self.cumulative_norm[s][bd][p]
                        + SumOver([h \in Hands |->
                                     self'.next_round_inputs[s][bd][1 - p][h].n], Hands)
               /\ \A h \in Hands :
                      \E e \in -Stack .. Stack :
                          /\ IsClipped(e, self'.next_round_values[s][bd][p][h],
                                       self.pot_sizes[s])
                          /\ self'.cumulative_cfvs[s][bd][p][h].n
                                 = self.cumulative_cfvs[s][bd][p][h].n
                                   + e * self.cumulative_cfvs[s][bd][p][h].d
                          /\ self'.cumulative_cfvs[s][bd][p][h].d
                                 = self.cumulative_cfvs[s][bd][p][h].d]_vars

\* C8 witness: a storing call whose rescaled output exceeded the bound, with
\* the two players' sums different.
C8_Witness ==
    /\ lastOp = "evaluate"
    /\ self.iter > Max(cfr_skip_iters, Budget)
    /\ \E s \in States, bd \in ActiveBoards, p \in Players :
           /\ values_norm[s][bd][p] # values_norm[s][bd][1 - p]
           /\ \E h \in Hands :
                  /\ Abs(self.next_round_values[s][bd][p][h]) * self.pot_sizes[s] > Stack
                  /\ self.cumulative_cfvs[s][bd][p][h].n # 0

\* C9: in every call a hand the board's mask excludes is zero in the range
\* slot handed to the network, whatever mass the caller put on it, and the
\* divisor of its (state, board, player) is the mass of the allowed hands only.
C9_MaskedHandsCarryNoMass ==
    lastOp = "evaluate" =>
        \A s \in States, bd \in ActiveBoards, p \in Players :
            /\ \A h \in Hands :
                   /\ ~ActiveMask[bd][h] => ActiveInputs[s][bd][p][h].n = 0
                   /\ ActiveMask[bd][h] => ActiveInputs[s][bd][p][h].n = ranges_arg[s][p][h]
                   /\ ActiveInputs[s][bd][p][h].d
                          = (IF LegalMass(s, bd, p) = 0 THEN 1 ELSE LegalMass(s, bd, p))
            /\ values_norm[s][bd][1 - p] = LegalMass(s, bd, p)

\* C9 witness: a call whose range put mass on an excluded hand.
C9_Witness ==
    /\ lastOp = "evaluate"
    /\ \E s \in States, bd \in ActiveBoards, p \in Players, h \in Hands :
           /\ ~ActiveMask[bd][h]
           /\ ranges_arg[s][p][h] > 0
           /\ LegalMass(s, bd, p) > 0

\* C10 as stated: a player's masked range of mass zero gets divisor one, and
\* that player's output before the reduction is zero.
C10_Original ==
    lastOp = "evaluate" =>
        \A s \in States, bd \in ActiveBoards, p \in Players :
            LegalMass(s, bd, p) = 0 =>
                \A h \in Hands :
                    /\ ActiveInputs[s][bd][p][h].d = 1
                    /\ ActiveValues[s][bd][p][h] = 0

\* C10 amended: a player's masked range of mass zero gets divisor one, its
\* range slot is zero, and the OTHER player's output before the reduction is
\* zero.
C10_EmptyRangeZeroesOpponent ==
    lastOp = "evaluate" =>
        \A s \in States, bd \in ActiveBoards, p \in Players :
            LegalMass(s, bd, p) = 0 =>
                \A h \in Hands :
                    /\ ActiveInputs[s][bd][p][h].d = 1
                    /\ ActiveInputs[s][bd][p][h].n = 0
                    /\ ActiveValues[s][bd][1 - p][h] = 0

\* C10 witness: a player without legal mass whose own output is not zero.
C10_Witness ==
    /\ lastOp = "evaluate"
    /\ \E s \in States, bd \in ActiveBoards, p \in Players :
           /\ LegalMass(s, bd, p) = 0
           /\ \E h \in Hands : ActiveValues[s][bd][p][h] # 0

====
